---- MODULE Spec2Model ----
(***************************************************************************)
(* DNSSEC chain validation of geraldvillorente/dt: validateChain walks     *)
(* from a zone to the root, validateDomain probes the zone's servers for   *)
(* DNSKEY (LookupDNSKEY, validateDNSKEY) and the parent's servers for DS   *)
(* (validateParentDS).  One action per network exchange of the serial      *)
(* validator; every reply is chosen by the environment.                    *)
(***************************************************************************)
EXTENDS Integers, Sequences, FiniteSets, TLC

VARIABLES
    input,        \* the domain validateChain was called with
    now,          \* time.Now(), Unix seconds (scaled to SerialBits)
    pc,           \* position of the validator
    domain,       \* validateChain's loop variable
    nsdata,       \* FindNS(domain): one entry per nameserver, its number of addresses
    pnsdata,      \* FindNS(parent) of validateParentDS
    pos,          \* index of the next (nameserver, address) pair to query
    keyMap,       \* validateDomain's keyMap: key tag -> public key
    foundKeyTag,  \* validateParentDS's flag
    ret,          \* what the last validateDomain call returned
    chainRes,     \* what validateChain returned
    calls,        \* history: the validateDomain calls validateChain made, with their results
    rcvd,         \* history: public keys of the DNSKEYs received during this validateDomain call
    unprobed,     \* history: (nameserver, address) pairs of the zone not queried for DNSKEY
    keySeen,      \* history: kinds of the replies to the DNSKEY queries of this call
    dsCount,      \* history: number of DS queries of this call
    dsUnprobed,   \* history: (nameserver, address) pairs of the parent not queried for DS
    dsSeen,       \* history: kinds of the replies to the DS queries and of the DS records in them
    args,         \* the arguments of a helper called on its own (findNS, validateRRSIG, getParentDomain)
    result,       \* what that helper returned
    report        \* main's report fan-out: main, the workers, outputter and their channels

vars == <<input, now, pc, domain, nsdata, pnsdata, pos, keyMap, foundKeyTag, ret, chainRes,
          calls, rcvd, unprobed, keySeen, dsCount, dsUnprobed, dsSeen, args, result, report>>

\* what the validator's steps leave alone
others == <<args, result, report>>

(***************************************************************************)
(* Bounds of the model.                                                    *)
(***************************************************************************)
MaxLabels == 3      \* labels of the input domain, the root label not counted
MaxAnswer == 2      \* records in one answer section (ZoneSpec)
MaxNS == 2          \* nameservers FindNS returns
MaxIP == 2          \* addresses of one nameserver
SerialBits == 3     \* width of the RRSIG serial numbers (32 in the program)

(***************************************************************************)
(* Domain names: sequences of characters, fully qualified.                 *)
(***************************************************************************)
Root == <<".">>

LabelChars == <<"a", "b", "c", "d", "e", "f">>

\* the k-th label; every second label has two characters
Label(k) == [i \in 1..(1 + (k % 2)) |-> LabelChars[k]]

RECURSIVE Fqdn(_, _)
Fqdn(k, n) == IF k > n THEN <<>> ELSE Label(k) \o <<".">> \o Fqdn(k + 1, n)

\* "a.b.c." for n = 3, "." for n = 0
DomainOf(n) == IF n = 0 THEN Root ELSE Fqdn(1, n)

Domains == {DomainOf(n) : n \in 0..MaxLabels}

\* validateChain's loop is explored for at most this many iterations
MaxCalls == MaxLabels + 2

\* dns.NextLabel(s, offset): 0-based index of the start of the next label,
\* and whether the end of the name was reached
RECURSIVE NextLabel(_, _)
NextLabel(s, i) ==
    IF i >= Len(s) - 1 THEN [i |-> i + 1, end |-> TRUE]
    ELSE IF s[i + 1] = "." THEN [i |-> i + 1, end |-> FALSE]
    ELSE NextLabel(s, i + 1)

\* getParentDomain without the root as the parent of the last label
getParentDomain_NoSentinel(d) ==
    LET r == NextLabel(d, 0)
    IN  SubSeq(d, r.i + 1, Len(d))

getParentDomain(d) ==
    LET r == NextLabel(d, 0)
    IN  IF ~r.end THEN SubSeq(d, r.i + 1, Len(d)) ELSE Root

\* number of labels of a fully qualified name, the root label included
LabelCount(d) == IF d = Root THEN 1 ELSE Cardinality({i \in 1..Len(d) : d[i] = "."}) + 1

(***************************************************************************)
(* Errors.  The kinds are named as in the error taxonomy; the domain is    *)
(* the one the message formats, <<>> when the message names none.          *)
(***************************************************************************)
Err(k, d) == [kind |-> k, domain |-> d]
NoErr == Err("nil", <<>>)

Result(v, e) == [valid |-> v, err |-> e]
NoResult == [valid |-> FALSE, err |-> Err("none", <<>>)]

(***************************************************************************)
(* Resource records.                                                       *)
(***************************************************************************)
Keys == 1..3                     \* public keys
KeyTagOf == <<1, 1, 2>>          \* keys 1 and 2 share key tag 1
KeyTag(k) == KeyTagOf[k.pk]

DNSKEY(p) == [rtype |-> "DNSKEY", pk |-> p]
RRSIG(s, i, e) == [rtype |-> "RRSIG", signer |-> s, Inception |-> i, Expiration |-> e]
OtherRR == [rtype |-> "NS"]

year68 == 2 ^ (SerialBits - 1)

\* Go's integer division truncates toward zero
GoDiv(a, b) == IF a >= 0 THEN a \div b ELSE -((-a) \div b)

explicitValid(rr) ==
    LET utc == now
        modi == GoDiv(rr.Inception - utc, year68)
        mode == GoDiv(rr.Expiration - utc, year68)
        ti == rr.Inception + (modi * year68)
        te == rr.Expiration + (mode * year68)
    IN  <<ti, te>>

\* dns.RRSIG.ValidityPeriod(time.Now())
ValidityPeriod(rr) ==
    LET w == explicitValid(rr) IN w[1] <= now /\ now <= w[2]


\* dns.IsRRset: a non-empty set of records of one type (one name, one class)
IsRRset(rrset) ==
    /\ Len(rrset) > 0
    /\ \A i \in 1..Len(rrset) : rrset[i].rtype = rrset[1].rtype

\* sig.Verify(key, cleanset) returns nil: the set is an RRset and the
\* signature over it was made with this key
Verify(sig, key, cleanset) == IsRRset(cleanset) /\ sig.signer = key.pk

NilSig == [rtype |-> "nil"]

IsSig(rr) == rr.rtype = "RRSIG"
IsKey(rr) == rr.rtype = "DNSKEY"
NotSig(rr) == ~IsSig(rr)

\* the RRSIG the first loop of validateRRSIG leaves in sig: the last one
LastSig(rrset) ==
    LET sigs == SelectSeq(rrset, IsSig)
    IN  IF Len(sigs) = 0 THEN NilSig ELSE sigs[Len(sigs)]

ZeroKeyInfo == [Start |-> 0, End |-> 0]

\* TryKeys that returns the window of a signature that verifies out of its window
RECURSIVE TryKeys_ReturnStale(_, _, _, _)
TryKeys_ReturnStale(keys, i, sig, cleanset) ==
    IF i > Len(keys) THEN [valid |-> FALSE, info |-> ZeroKeyInfo, panic |-> FALSE, err |-> NoErr]
    ELSE IF ~IsKey(keys[i]) THEN TryKeys_ReturnStale(keys, i + 1, sig, cleanset)
    ELSE IF sig = NilSig
         THEN IF IsRRset(cleanset)
              THEN [valid |-> FALSE, info |-> ZeroKeyInfo, panic |-> TRUE, err |-> NoErr]
              ELSE TryKeys_ReturnStale(keys, i + 1, sig, cleanset)
    ELSE IF Verify(sig, keys[i], cleanset)
         THEN LET w == explicitValid(sig)
              IN  [valid |-> ValidityPeriod(sig), info |-> [Start |-> w[1], End |-> w[2]],
                   panic |-> FALSE, err |-> NoErr]
    ELSE TryKeys_ReturnStale(keys, i + 1, sig, cleanset)

\* TryKeys that gives up after the first DNSKEY that does not validate
RECURSIVE TryKeys_FirstKeyOnly(_, _, _, _)
TryKeys_FirstKeyOnly(keys, i, sig, cleanset) ==
    IF i > Len(keys) THEN [valid |-> FALSE, info |-> ZeroKeyInfo, panic |-> FALSE, err |-> NoErr]
    ELSE IF ~IsKey(keys[i]) THEN TryKeys_FirstKeyOnly(keys, i + 1, sig, cleanset)
    ELSE IF sig = NilSig
         THEN [valid |-> FALSE, info |-> ZeroKeyInfo, panic |-> IsRRset(cleanset), err |-> NoErr]
    ELSE IF Verify(sig, keys[i], cleanset) /\ ValidityPeriod(sig)
         THEN LET w == explicitValid(sig)
              IN  [valid |-> TRUE, info |-> [Start |-> w[1], End |-> w[2]], panic |-> FALSE,
                   err |-> NoErr]
    ELSE [valid |-> FALSE, info |-> ZeroKeyInfo, panic |-> FALSE, err |-> NoErr]

\* the loop over keys of validateRRSIG, from key i on
RECURSIVE TryKeys(_, _, _, _)
TryKeys(keys, i, sig, cleanset) ==
    IF i > Len(keys) THEN [valid |-> FALSE, info |-> ZeroKeyInfo, panic |-> FALSE, err |-> NoErr]
    ELSE IF ~IsKey(keys[i]) THEN TryKeys(keys, i + 1, sig, cleanset)
    ELSE IF sig = NilSig
         THEN \* Verify on a nil *dns.RRSIG: ErrRRset before the receiver is
              \* read, a nil dereference after
              IF IsRRset(cleanset)
              THEN [valid |-> FALSE, info |-> ZeroKeyInfo, panic |-> TRUE, err |-> NoErr]
              ELSE TryKeys(keys, i + 1, sig, cleanset)
    ELSE IF Verify(sig, keys[i], cleanset) /\ ValidityPeriod(sig)
         THEN LET w == explicitValid(sig)
              IN  [valid |-> TRUE, info |-> [Start |-> w[1], End |-> w[2]], panic |-> FALSE, err |-> NoErr]
    ELSE TryKeys(keys, i + 1, sig, cleanset)

validateRRSIG(keys, rrset) ==
    IF Len(rrset) = 0 THEN [valid |-> FALSE, info |-> ZeroKeyInfo, panic |-> FALSE, err |-> NoErr]
    ELSE TryKeys(keys, 1, LastSig(rrset), SelectSeq(rrset, NotSig))

validateDNSKEY(keys) == validateRRSIG(keys, keys)

(***************************************************************************)
(* Replies of the network.                                                 *)
(***************************************************************************)
SeqsUpTo(S, n) == UNION {[1..k -> S] : k \in 0..n}

TransportError == [Msg |-> "nil"]
Reply(ans) == [Msg |-> "msg", Answer |-> ans]

NowValues == {3}
SigWindows == {<<1, 5>>, <<1, 2>>}      \* in force at 3, expired at 3

KeyRecords ==
    {DNSKEY(p) : p \in Keys}
    \cup {RRSIG(s, w[1], w[2]) : s \in {1, 3}, w \in SigWindows}
    \cup {OtherRR}

KeyReplies == {TransportError} \cup {Reply(a) : a \in SeqsUpTo(KeyRecords, MaxAnswer)}

\* the DNSKEY replies of the walker's specification, one of each kind:
\* no reply, no DNSKEY, DNSKEYs without RRSIG (alone, and beside another
\* record), a self-signed set, an expired signature, a signature by a key that
\* is not served, a self-signed key with the key tag of key 1, a self-signed
\* key with another key tag
ChainKeyReplies ==
    {TransportError,
     Reply(<<>>),
     Reply(<<DNSKEY(1)>>),
     Reply(<<DNSKEY(1), OtherRR>>),
     Reply(<<DNSKEY(1), RRSIG(1, 1, 5)>>),
     Reply(<<RRSIG(1, 1, 2), DNSKEY(1)>>),
     Reply(<<DNSKEY(1), RRSIG(3, 1, 5)>>),
     Reply(<<DNSKEY(2), RRSIG(2, 1, 5)>>),
     Reply(<<DNSKEY(3), RRSIG(3, 1, 5)>>)}

GOST94 == 3                              \* the digest type validateParentDS skips
SupportedDigests == {1, 2, 4}            \* the hashes DNSKEY.ToDS knows: SHA1, SHA256, SHA384
DigestTypes == {2, GOST94, 9}            \* SHA256, GOST, a type ToDS does not know

Digest(p, h) == <<p, h>>
DS(t, h, p) == [rtype |-> "DS", KeyTag |-> t, DigestType |-> h, Digest |-> Digest(p, h)]
NilDS == [rtype |-> "nil"]

\* key.ToDS(h): nil for a hash it does not know
ToDS(key, h) ==
    IF h \in SupportedDigests THEN DS(KeyTag(key), h, key.pk) ELSE NilDS

DSRecords ==
    {DS(1, h, 1) : h \in DigestTypes} \cup {DS(1, 2, 3), DS(2, 2, 3)} \cup {RRSIG(1, 1, 5)}

DSReplies == {TransportError} \cup {Reply(a) : a \in SeqsUpTo(DSRecords, MaxAnswer)}

\* the DS replies of the walker's specification, one of each kind: no
\* reply, an empty answer, the digest of key 1, another digest for key tag 1,
\* a GOST DS, a DS of a digest type ToDS does not know, a DS for key tag 2,
\* GOST and SHA-256 in one answer in both orders, an answer without DS
ChainDSReplies ==
    {TransportError,
     Reply(<<>>),
     Reply(<<DS(1, 2, 1)>>),
     Reply(<<DS(1, 2, 3)>>),
     Reply(<<DS(1, GOST94, 1)>>),
     Reply(<<DS(1, 9, 1)>>),
     Reply(<<DS(2, 2, 3)>>),
     Reply(<<DS(1, GOST94, 1), DS(1, 2, 1)>>),
     Reply(<<DS(1, 2, 1), DS(1, GOST94, 1)>>),
     Reply(<<RRSIG(1, 1, 5)>>)}

\* FindNS: the nameservers of a domain, each with its number of addresses;
\* empty when the resolver fails or knows no NS
NSData == SeqsUpTo(0..MaxIP, MaxNS)

\* the (nameserver, address) pairs in the order the nested loops visit them
RECURSIVE PairsFrom(_, _)
PairsFrom(ns, i) ==
    IF i > Len(ns) THEN <<>>
    ELSE [j \in 1..ns[i] |-> <<i, j>>] \o PairsFrom(ns, i + 1)

Pairs(ns) == PairsFrom(ns, 1)


(***************************************************************************)
(* LookupDNSKEY: the loop that maps the DNSKEYs of an answer.              *)
(***************************************************************************)
Put(km, tag, p) == [t \in (DOMAIN km) \cup {tag} |-> IF t = tag THEN p ELSE km[t]]

EmptyMap == <<>>

\* MapKeys without the comparison of the public keys: the later key wins
RECURSIVE MapKeys_NoCollisionCheck(_, _, _, _, _)
MapKeys_NoCollisionCheck(d, ans, i, km, found) ==
    IF i > Len(ans)
    THEN [err |-> IF found THEN NoErr ELSE Err("NoDNSKEY", d), keyMap |-> km]
    ELSE IF IsKey(ans[i])
         THEN MapKeys_NoCollisionCheck(d, ans, i + 1, Put(km, KeyTag(ans[i]), ans[i].pk), TRUE)
         ELSE MapKeys_NoCollisionCheck(d, ans, i + 1, km, found)

RECURSIVE MapKeys(_, _, _, _, _)
MapKeys(d, ans, i, km, found) ==
    IF i > Len(ans)
    THEN [err |-> IF found THEN NoErr ELSE Err("NoDNSKEY", d), keyMap |-> km]
    ELSE IF IsKey(ans[i])
         THEN IF KeyTag(ans[i]) \in DOMAIN km /\ km[KeyTag(ans[i])] # ans[i].pk
              THEN [err |-> Err("InconsistentKeys", <<>>), keyMap |-> km]
              ELSE MapKeys(d, ans, i + 1, Put(km, KeyTag(ans[i]), ans[i].pk), TRUE)
         ELSE MapKeys(d, ans, i + 1, km, found)

\* a transport error is logged and returned as (res, nil) with res.Msg nil
LookupDNSKEY(d, res, km) ==
    IF res = TransportError THEN [err |-> NoErr, keyMap |-> km]
    ELSE MapKeys(d, res.Answer, 1, km, FALSE)

\* DNSKEYStep that goes on to the next address when LookupDNSKEY returned an error
DNSKEYStep_IgnoreLookupError(d, res, km) ==
    LET l == LookupDNSKEY(d, res, km)
    IN  IF l.err # NoErr \/ res.Msg = "nil"
        THEN [to |-> "next", ret |-> NoResult, keyMap |-> l.keyMap]
        ELSE LET v == validateDNSKEY(res.Answer)
             IN  IF v.panic
                 THEN [to |-> "panic", ret |-> NoResult, keyMap |-> l.keyMap]
                 ELSE IF v.valid
                 THEN [to |-> "next", ret |-> NoResult, keyMap |-> l.keyMap]
                 ELSE [to |-> "return",
                       ret |-> Result(FALSE, Err("DNSKEYValidationFailed", d)),
                       keyMap |-> l.keyMap]

\* DNSKEYStep that goes on to the next address when the RRSIG did not validate
DNSKEYStep_IgnoreInvalid(d, res, km) ==
    LET l == LookupDNSKEY(d, res, km)
    IN  IF l.err # NoErr
        THEN [to |-> "return", ret |-> Result(FALSE, l.err), keyMap |-> l.keyMap]
        ELSE IF res.Msg = "nil"
        THEN [to |-> "next", ret |-> NoResult, keyMap |-> l.keyMap]
        ELSE LET v == validateDNSKEY(res.Answer)
             IN  IF v.panic
                 THEN [to |-> "panic", ret |-> NoResult, keyMap |-> l.keyMap]
                 ELSE [to |-> "next", ret |-> NoResult, keyMap |-> l.keyMap]

\* one iteration of validateDomain's loop over (nameserver, address): what the
\* call does after the DNSKEY exchange that returned res
\*   "return": validateDomain returns ret;  "next": the loop goes on;
\*   "panic": the goroutine panics
DNSKEYStep(d, res, km) ==
    LET l == LookupDNSKEY(d, res, km)
    IN  IF l.err # NoErr
        THEN [to |-> "return", ret |-> Result(FALSE, l.err), keyMap |-> l.keyMap]
        ELSE IF res.Msg = "nil"
        THEN [to |-> "next", ret |-> NoResult, keyMap |-> l.keyMap]
        ELSE LET v == validateDNSKEY(res.Answer)
             IN  IF v.panic
                 THEN [to |-> "panic", ret |-> NoResult, keyMap |-> l.keyMap]
                 ELSE IF v.valid
                 THEN [to |-> "next", ret |-> NoResult, keyMap |-> l.keyMap]
                 ELSE [to |-> "return",
                       ret |-> Result(FALSE, Err("DNSKEYValidationFailed", d)),
                       keyMap |-> l.keyMap]

(***************************************************************************)
(* validateParentDS: the loop over the records of one DS answer.           *)
(***************************************************************************)
\* CompareDS without the skip of digest type 3
RECURSIVE CompareDS_NoGostSkip(_, _, _, _)
CompareDS_NoGostSkip(ans, i, km, found) ==
    IF i > Len(ans) THEN [mismatch |-> FALSE, foundKeyTag |-> found]
    ELSE IF ans[i].rtype # "DS" THEN CompareDS_NoGostSkip(ans, i + 1, km, found)
    ELSE IF ans[i].KeyTag \notin DOMAIN km THEN CompareDS_NoGostSkip(ans, i + 1, km, found)
    ELSE LET childDS == ToDS(DNSKEY(km[ans[i].KeyTag]), ans[i].DigestType)
         IN  IF childDS # NilDS
             THEN IF ans[i].Digest = childDS.Digest
                  THEN CompareDS_NoGostSkip(ans, i + 1, km, TRUE)
                  ELSE [mismatch |-> TRUE, foundKeyTag |-> TRUE]
             ELSE CompareDS_NoGostSkip(ans, i + 1, km, TRUE)

RECURSIVE CompareDS(_, _, _, _)
CompareDS(ans, i, km, found) ==
    IF i > Len(ans) THEN [mismatch |-> FALSE, foundKeyTag |-> found]
    ELSE IF ans[i].rtype # "DS" THEN CompareDS(ans, i + 1, km, found)
    ELSE IF ans[i].KeyTag \notin DOMAIN km THEN CompareDS(ans, i + 1, km, found)
    ELSE IF ans[i].DigestType = GOST94 THEN CompareDS(ans, i + 1, km, found)
    ELSE LET childDS == ToDS(DNSKEY(km[ans[i].KeyTag]), ans[i].DigestType)
         IN  IF childDS # NilDS
             THEN IF ans[i].Digest = childDS.Digest
                  THEN CompareDS(ans, i + 1, km, TRUE)
                  ELSE [mismatch |-> TRUE, foundKeyTag |-> TRUE]
             ELSE CompareDS(ans, i + 1, km, TRUE)

\* the pair the DS loop visits after pair p when the exchange failed: break
\* leaves the loop over the addresses of this nameserver
RECURSIVE SkipNS(_, _)
SkipNS(prs, p) ==
    IF p + 1 <= Len(prs) /\ prs[p + 1][1] = prs[p][1] THEN SkipNS(prs, p + 1) ELSE p + 1

\* DSStep without the check for an empty answer
DSStep_NoEmptyCheck(d, res, km, found, prs, p) ==
    IF res = TransportError
    THEN [to |-> "next", ret |-> NoResult, foundKeyTag |-> found, pos |-> SkipNS(prs, p)]
    ELSE LET c == CompareDS(res.Answer, 1, km, found)
         IN  IF c.mismatch
             THEN [to |-> "return", ret |-> Result(FALSE, NoErr),
                   foundKeyTag |-> c.foundKeyTag, pos |-> p]
             ELSE [to |-> "next", ret |-> NoResult, foundKeyTag |-> c.foundKeyTag, pos |-> p + 1]

\* one iteration of validateParentDS's loop: what it does after the DS
\* exchange for domain d with pair p returned res
DSStep(d, res, km, found, prs, p) ==
    IF res # TransportError /\ Len(res.Answer) = 0
    THEN [to |-> "return", ret |-> Result(FALSE, Err("NoDS", d)), foundKeyTag |-> found, pos |-> p]
    ELSE IF res = TransportError
    THEN [to |-> "next", ret |-> NoResult, foundKeyTag |-> found, pos |-> SkipNS(prs, p)]
    ELSE LET c == CompareDS(res.Answer, 1, km, found)
         IN  IF c.mismatch
             THEN [to |-> "return", ret |-> Result(FALSE, NoErr),
                   foundKeyTag |-> c.foundKeyTag, pos |-> p]
             ELSE [to |-> "next", ret |-> NoResult, foundKeyTag |-> c.foundKeyTag, pos |-> p + 1]

\* the end of validateParentDS without the check of foundKeyTag
DSResult_IgnoreFound(d, found) == Result(TRUE, NoErr)

\* the end of validateParentDS
DSResult(d, found) ==
    IF ~found THEN Result(FALSE, Err("NoMatchingKeyTag", d)) ELSE Result(TRUE, NoErr)

(***************************************************************************)
(* validateChain: what the loop does with validateDomain's result.         *)
(***************************************************************************)
\* ChainStep that returns success after the first zone that validates
ChainStep_StopAfterFirst(d, r) ==
    IF r.err # NoErr THEN [done |-> TRUE, res |-> Result(FALSE, r.err), domain |-> d]
    ELSE IF ~r.valid THEN [done |-> TRUE, res |-> Result(FALSE, Err("ChainFailed", <<>>)), domain |-> d]
    ELSE [done |-> TRUE, res |-> Result(TRUE, NoErr), domain |-> d]

\* ChainStep that goes on without replacing domain by its parent
ChainStep_NoAdvance(d, r) ==
    IF r.err # NoErr THEN [done |-> TRUE, res |-> Result(FALSE, r.err), domain |-> d]
    ELSE IF ~r.valid THEN [done |-> TRUE, res |-> Result(FALSE, Err("ChainFailed", <<>>)), domain |-> d]
    ELSE IF getParentDomain(d) = Root THEN [done |-> TRUE, res |-> Result(TRUE, NoErr), domain |-> d]
    ELSE [done |-> FALSE, res |-> NoResult, domain |-> d]

ChainStep(d, r) ==
    IF r.err # NoErr THEN [done |-> TRUE, res |-> Result(FALSE, r.err), domain |-> d]
    ELSE IF ~r.valid THEN [done |-> TRUE, res |-> Result(FALSE, Err("ChainFailed", <<>>)), domain |-> d]
    ELSE IF getParentDomain(d) = Root THEN [done |-> TRUE, res |-> Result(TRUE, NoErr), domain |-> d]
    ELSE [done |-> FALSE, res |-> NoResult, domain |-> getParentDomain(d)]


(***************************************************************************)
(* History: what was received, stated on the replies themselves.           *)
(***************************************************************************)
\* some DNSKEY of the answer verifies an RRSIG of the answer that is in force
SelfVerified(ans) ==
    \E i, j \in 1..Len(ans) :
        /\ IsKey(ans[i]) /\ IsSig(ans[j])
        /\ Verify(ans[j], ans[i], SelectSeq(ans, NotSig))
        /\ ValidityPeriod(ans[j])

HasKey(ans) == \E i \in 1..Len(ans) : IsKey(ans[i])
HasSig(ans) == \E i \in 1..Len(ans) : IsSig(ans[i])

KeyClass(res) ==
    IF res = TransportError THEN "transport"
    ELSE IF ~HasKey(res.Answer) THEN "nokey"
    ELSE IF ~HasSig(res.Answer) THEN "nosig"
    ELSE IF SelfVerified(res.Answer) THEN "verified"
    ELSE "unverified"

KeysOf(res) ==
    IF res = TransportError THEN {}
    ELSE {res.Answer[i].pk : i \in {j \in 1..Len(res.Answer) : IsKey(res.Answer[j])}}

\* two of the keys received share a key tag
Collision(ks) == \E p, q \in ks : p # q /\ KeyTagOf[p] = KeyTagOf[q]

DSClass(ds, km) ==
    IF ds.DigestType = GOST94 THEN "gost"
    ELSE IF ds.KeyTag \notin DOMAIN km THEN "nokey"
    ELSE IF ds.DigestType \notin SupportedDigests THEN "underivable"
    ELSE IF ds.Digest = Digest(km[ds.KeyTag], ds.DigestType) THEN "match"
    ELSE "mismatch"

DSClasses(res, km) ==
    IF res = TransportError THEN {"transport"}
    ELSE IF Len(res.Answer) = 0 THEN {"empty"}
    ELSE {DSClass(res.Answer[i], km) :
             i \in {j \in 1..Len(res.Answer) : res.Answer[j].rtype = "DS"}}

(***************************************************************************)
(* The state machine.                                                      *)
(***************************************************************************)
\* the validator at position p, nothing called yet
ChainAt(D, N, p) ==
    /\ input \in D
    /\ now \in N
    /\ pc = p
    /\ domain = input
    /\ nsdata = <<>>
    /\ pnsdata = <<>>
    /\ pos = 1
    /\ keyMap = EmptyMap
    /\ foundKeyTag = FALSE
    /\ ret = NoResult
    /\ chainRes = NoResult
    /\ calls = <<>>
    /\ rcvd = {}
    /\ unprobed = 0
    /\ keySeen = {}
    /\ dsCount = 0
    /\ dsUnprobed = 0
    /\ dsSeen = {}

NoArgs == [fn |-> "none"]
NoValue == [fn |-> "none"]
NoReport == [n |-> 0]

InitOn(D) ==
    /\ ChainAt(D, NowValues, "chain")
    /\ args = NoArgs
    /\ result = NoValue
    /\ report = NoReport

\* validateChain calls validateDomain(domain): a fresh keyMap, FindNS(domain)
CallValidateDomain ==
    /\ pc = "chain"
    /\ Len(calls) < MaxCalls
    /\ \E ns \in NSData :
         /\ nsdata' = ns
         /\ unprobed' = Len(Pairs(ns))
    /\ pnsdata' = <<>>
    /\ pos' = 1
    /\ keyMap' = EmptyMap
    /\ foundKeyTag' = FALSE
    /\ ret' = NoResult
    /\ rcvd' = {}
    /\ keySeen' = {}
    /\ dsCount' = 0
    /\ dsUnprobed' = 0
    /\ dsSeen' = {}
    /\ pc' = "dnskey"
    /\ UNCHANGED <<input, now, domain, chainRes, calls>>
    /\ UNCHANGED others

\* one DNSKEY exchange with the next (nameserver, address) of the zone, the
\* reply drawn from KR; when validateDomain returns, its locals are gone
DNSKEYExchange(KR) ==
    /\ pc = "dnskey"
    /\ pos <= Len(Pairs(nsdata))
    /\ \E res \in KR :
         LET s == DNSKEYStep(domain, res, keyMap)
         IN  /\ rcvd' = rcvd \cup KeysOf(res)
             /\ unprobed' = unprobed - 1
             /\ keySeen' = keySeen \cup {KeyClass(res)}
             /\ ret' = s.ret
             /\ IF s.to = "next"
                THEN /\ pc' = "dnskey"
                     /\ pos' = pos + 1
                     /\ keyMap' = s.keyMap
                     /\ nsdata' = nsdata
                ELSE /\ pc' = IF s.to = "panic" THEN "panic" ELSE "ret"
                     /\ pos' = 1
                     /\ keyMap' = EmptyMap
                     /\ nsdata' = <<>>
    /\ UNCHANGED <<input, now, domain, pnsdata, foundKeyTag, chainRes, calls,
                   dsCount, dsUnprobed, dsSeen>>
    /\ UNCHANGED others

\* the DNSKEY loop is over: FindNS(parent) in validateDomain (result unused),
\* then validateParentDS starts with its own FindNS(parent)
StartDS ==
    /\ pc = "dnskey"
    /\ pos > Len(Pairs(nsdata))
    /\ \E ns \in NSData :
         /\ pnsdata' = ns
         /\ dsUnprobed' = Len(Pairs(ns))
    /\ nsdata' = <<>>
    /\ pos' = 1
    /\ foundKeyTag' = FALSE
    /\ pc' = "ds"
    /\ UNCHANGED <<input, now, domain, keyMap, ret, chainRes, calls, rcvd,
                   unprobed, keySeen, dsCount, dsSeen>>
    /\ UNCHANGED others

\* one DS exchange with the next (nameserver, address) of the parent, the
\* reply drawn from DR
DSExchange(DR) ==
    /\ pc = "ds"
    /\ pos <= Len(Pairs(pnsdata))
    /\ \E res \in DR :
         LET s == DSStep(domain, res, keyMap, foundKeyTag, Pairs(pnsdata), pos)
         IN  /\ dsCount' = dsCount + 1
             /\ dsUnprobed' = dsUnprobed - 1
             /\ dsSeen' = dsSeen \cup DSClasses(res, keyMap)
             /\ ret' = s.ret
             /\ IF s.to = "next"
                THEN /\ pc' = "ds"
                     /\ pos' = s.pos
                     /\ foundKeyTag' = s.foundKeyTag
                     /\ UNCHANGED <<pnsdata, keyMap>>
                ELSE /\ pc' = "ret"
                     /\ pos' = 1
                     /\ foundKeyTag' = FALSE
                     /\ pnsdata' = <<>>
                     /\ keyMap' = EmptyMap
    /\ UNCHANGED <<input, now, domain, nsdata, chainRes, calls, rcvd, unprobed, keySeen>>
    /\ UNCHANGED others

\* the DS loop is over: validateParentDS returns, and validateDomain with it
FinishDS ==
    /\ pc = "ds"
    /\ pos > Len(Pairs(pnsdata))
    /\ ret' = DSResult(domain, foundKeyTag)
    /\ pc' = "ret"
    /\ pos' = 1
    /\ foundKeyTag' = FALSE
    /\ pnsdata' = <<>>
    /\ keyMap' = EmptyMap
    /\ UNCHANGED <<input, now, domain, nsdata, chainRes, calls, rcvd, unprobed, keySeen,
                   dsCount, dsUnprobed, dsSeen>>
    /\ UNCHANGED others

\* validateChain handles what validateDomain returned
ChainReturn ==
    /\ pc = "ret"
    /\ LET c == ChainStep(domain, ret)
       IN  /\ calls' = Append(calls, [domain |-> domain, valid |-> ret.valid, err |-> ret.err])
           /\ pc' = IF c.done THEN "done" ELSE "chain"
           /\ chainRes' = c.res
           /\ domain' = c.domain
    /\ UNCHANGED <<input, now, nsdata, pnsdata, pos, keyMap, foundKeyTag, ret, rcvd,
                   unprobed, keySeen, dsCount, dsUnprobed, dsSeen>>
    /\ UNCHANGED others

\* The walker over every input domain, one reply of each kind.
Init == InitOn(Domains)

Next ==
    \/ CallValidateDomain
    \/ DNSKEYExchange(ChainKeyReplies)
    \/ StartDS
    \/ DSExchange(ChainDSReplies)
    \/ FinishDS
    \/ ChainReturn

Spec == Init /\ [][Next]_vars

\* the validator is one sequential call: it keeps running until it returns
\* (an exchange that gets no reply ends in a transport error)
FairSpec == Spec /\ WF_vars(Next)

\* One zone under the root, every answer of up to MaxAnswer records.
ZoneInit == InitOn({DomainOf(1)})

ZoneNext ==
    \/ CallValidateDomain
    \/ DNSKEYExchange(KeyReplies)
    \/ StartDS
    \/ DSExchange(DSReplies)
    \/ FinishDS
    \/ ChainReturn

ZoneSpec == ZoneInit /\ [][ZoneNext]_vars

TypeOK ==
    /\ input \in Domains
    /\ pc \in {"chain", "dnskey", "ds", "ret", "done", "panic", "idle"}
    /\ nsdata \in NSData /\ pnsdata \in NSData
    /\ foundKeyTag \in BOOLEAN
    /\ rcvd \subseteq Keys
    /\ unprobed >= 0 /\ dsUnprobed >= 0

(***************************************************************************)
(* Properties.                                                             *)
(***************************************************************************)
Returned == pc \in {"ret", "done"}

\* the zones from the input up to the last one below the root, child first;
\* the root alone when the input is the root
NumLabels == LabelCount(input) - 1
ZonesOfInput ==
    IF input = Root THEN <<Root>> ELSE [i \in 1..NumLabels |-> Fqdn(i, NumLabels)]

Success(c) == c.valid /\ c.err = NoErr

\* C1: validateChain returns true if and only if validateDomain succeeded for
\* the input and every ancestor up to the last zone whose parent is the root;
\* the zones are validated one at a time, child first, starting at the input.
C1_ChainTrueIffAllZones ==
    /\ Len(calls) <= Len(ZonesOfInput)
    /\ \A i \in 1..Len(calls) : calls[i].domain = ZonesOfInput[i]
    /\ pc \in {"dnskey", "ds", "ret"} => domain = ZonesOfInput[Len(calls) + 1]
    /\ pc = "done" =>
         (chainRes.valid <=>
            /\ Len(calls) = Len(ZonesOfInput)
            /\ \A i \in 1..Len(calls) : Success(calls[i]))

C1_Witness ==
    /\ pc = "done" /\ chainRes.valid
    /\ input = DomainOf(MaxLabels) /\ Len(calls) = MaxLabels

\* C2: validateChain returns failure at the first zone that does not
\* succeed, validates no further ancestor, and returns exactly the error the
\* inner validateDomain call produced, for every failure kind.
C2_FailFastInnerError ==
    pc = "done" /\ ~chainRes.valid =>
        /\ ~Success(calls[Len(calls)])
        /\ \A i \in 1..(Len(calls) - 1) : Success(calls[i])
        /\ chainRes.err = calls[Len(calls)].err

\* C3: validateChain terminates: no more iterations than the input has
\* labels, every iteration that goes on replaces domain by a name with
\* fewer labels, and the call returns (or a validateDomain call did not).
Iterations == Len(calls) + (IF pc \in {"dnskey", "ds", "ret", "panic"} THEN 1 ELSE 0)

C3_Terminates ==
    /\ [](Iterations <= LabelCount(input))
    /\ [][domain' # domain => LabelCount(domain') < LabelCount(domain)]_vars
    /\ <>(pc \in {"done", "panic"})

C3_Witness ==
    pc = "done" /\ input = DomainOf(MaxLabels) /\ Iterations = MaxLabels

\* C4: when two DNSKEYs with one key tag and different public keys are
\* received during a validateDomain call, the call fails at once with
\* InconsistentKeys and issues no DS query; the key map holds, for every key
\* received, that key under its key tag.
C4_KeyMapConsistent ==
    /\ Collision(rcvd) =>
         /\ Returned
         /\ ret = Result(FALSE, Err("InconsistentKeys", <<>>))
         /\ dsCount = 0
    /\ pc \in {"dnskey", "ds"} =>
         \A p \in rcvd : KeyTagOf[p] \in DOMAIN keyMap /\ keyMap[KeyTagOf[p]] = p

C4_Witness ==
    /\ pc = "ret" /\ Collision(rcvd) /\ "verified" \in keySeen
    /\ ret.err.kind = "InconsistentKeys"

\* C5: a DS whose key tag matches a child DNSKEY and whose digest differs
\* makes validateDomain fail with a DigestMismatch error, and validateChain
\* return false with that error.
C5_DigestMismatchError ==
    Returned /\ "mismatch" \in dsSeen =>
        /\ ret = Result(FALSE, Err("DigestMismatch", domain))
        /\ pc = "done" => chainRes = ret

\* C6: a DS of digest type 3 is ignored: when the only DS records received
\* are GOST, validateDomain fails with NoMatchingKeyTag; when a DS that
\* matches and a GOST DS are received (in any order, from any server),
\* validateDomain succeeds.
C6_GostSkipped ==
    Returned =>
        /\ dsSeen \ {"transport"} = {"gost"} =>
             ret = Result(FALSE, Err("NoMatchingKeyTag", domain))
        /\ dsSeen \ {"transport"} = {"gost", "match"} => ret = Result(TRUE, NoErr)

C6_Witness == pc = "ret" /\ dsSeen = {"gost", "match"} /\ ret.valid /\ dsCount = 1

C9_UnverifiedIsError ==
    keySeen \cap {"unverified", "nosig"} # {} /\ ~Collision(rcvd) =>
        /\ Returned
        /\ ret = Result(FALSE, Err("DNSKEYValidationFailed", domain))

\* C10: an empty answer to the DS query makes validateDomain fail with NoDS;
\* NoDS is reported only after every pair of the zone was probed for DNSKEY
\* and none failed; validateChain then returns false with that error, after
\* the zones below validated, and examines no zone above.
C10_NoDS ==
    /\ Returned /\ "empty" \in dsSeen => ret = Result(FALSE, Err("NoDS", domain))
    /\ Returned /\ ret.err.kind = "NoDS" =>
         /\ unprobed = 0
         /\ keySeen \subseteq {"verified", "transport"}
         /\ ~Collision(rcvd)
         /\ domain = ZonesOfInput[Len(calls) + (IF pc = "ret" THEN 1 ELSE 0)]
    /\ \A i \in 1..Len(calls) :
         calls[i].err.kind = "NoDS" =>
             /\ i = Len(calls) /\ pc = "done"
             /\ chainRes = Result(FALSE, Err("NoDS", ZonesOfInput[i]))
             /\ \A j \in 1..(i - 1) : Success(calls[j])

C10_Witness ==
    /\ pc = "done" /\ input = DomainOf(3) /\ Len(calls) = 2
    /\ Success(calls[1]) /\ calls[1].domain = DomainOf(3)
    /\ chainRes = Result(FALSE, Err("NoDS", getParentDomain(DomainOf(3))))

(***************************************************************************)
(* NS Discovery (main.go): query, queryRRset, extractRR, getIP, findNS.    *)
(***************************************************************************)
NSNames == {"n1", "n2"}

NS(n) == [rtype |-> "NS", Ns |-> n]
A(ip) == [rtype |-> "A", A |-> ip]
AAAA(ip) == [rtype |-> "AAAA", AAAA |-> ip]
CNAME == [rtype |-> "CNAME"]                \* a record of no type findNS asks for

\* the resolver's replies to the NS query
NSReplies ==
    {TransportError} \cup {Reply(a) : a \in SeqsUpTo({NS(n) : n \in NSNames} \cup {CNAME}, MaxAnswer)}

\* the resolver's replies to the A and AAAA queries for one nameserver
AReplies == {TransportError, Reply(<<CNAME>>), Reply(<<A(1)>>), Reply(<<A(1), A(2)>>)}
AAAAReplies == {TransportError, Reply(<<AAAA(3)>>)}
Resolvers == [NSNames -> [a : AReplies, aaaa : AAAAReplies]]

HasType(rr, qtype) == rr.rtype = qtype

RECURSIVE extractRR(_, _)
extractRR(rrset, qtype) ==
    IF Len(rrset) = 0 THEN <<>>
    ELSE (IF HasType(Head(rrset), qtype) THEN <<Head(rrset)>> ELSE <<>>)
         \o extractRR(Tail(rrset), qtype)

\* queryRRset on the reply res of query()
queryRRset(res, qtype) ==
    IF res = TransportError THEN [rrset |-> <<>>, err |-> Err("TransportError", <<>>)]
    ELSE LET rrset == extractRR(res.Answer, qtype)
         IN  IF Len(rrset) = 0
             THEN [rrset |-> <<>>, err |-> Err("NoAnswer", <<>>)]
             ELSE [rrset |-> rrset, err |-> NoErr]

RECURSIVE AddressesOf(_)
AddressesOf(rrset) ==
    IF Len(rrset) = 0 THEN <<>>
    ELSE (IF Head(rrset).rtype = "A" THEN <<Head(rrset).A>>
          ELSE IF Head(rrset).rtype = "AAAA" THEN <<Head(rrset).AAAA>>
          ELSE <<>>)
         \o AddressesOf(Tail(rrset))

getIP(res, qtype) ==
    LET q == queryRRset(res, qtype)
    IN  IF q.err # NoErr THEN <<>> ELSE AddressesOf(q.rrset)

\* the loop of findNS over the NS records: v4 first, then v6
RECURSIVE NSInfos(_, _)
NSInfos(rrset, resolver) ==
    IF Len(rrset) = 0 THEN <<>>
    ELSE <<[Name |-> Head(rrset).Ns,
            IP |-> getIP(resolver[Head(rrset).Ns].a, "A")
                   \o getIP(resolver[Head(rrset).Ns].aaaa, "AAAA")]>>
         \o NSInfos(Tail(rrset), resolver)

findNS(res, resolver) ==
    LET q == queryRRset(res, "NS")
    IN  IF q.err # NoErr THEN [nsinfos |-> <<>>, err |-> NoErr]
        ELSE LET nsinfos == NSInfos(q.rrset, resolver)
             IN  IF Len(nsinfos) = 0
                 THEN [nsinfos |-> nsinfos, err |-> Err("NoNameservers", <<>>)]
                 ELSE [nsinfos |-> nsinfos, err |-> NoErr]

(***************************************************************************)
(* The helpers called on their own: the arguments are drawn at the start,  *)
(* one action per call.                                                    *)
(***************************************************************************)
FindNSArgs == {[fn |-> "findNS", res |-> r, resolver |-> b] : r \in NSReplies, b \in Resolvers}

FindNSInit ==
    /\ ChainAt({Root}, NowValues, "idle")
    /\ args \in FindNSArgs
    /\ result = NoValue
    /\ report = NoReport

unhelped == <<input, now, pc, domain, nsdata, pnsdata, pos, keyMap, foundKeyTag, ret, chainRes,
              calls, rcvd, unprobed, keySeen, dsCount, dsUnprobed, dsSeen, report>>

CallFindNS ==
    /\ args.fn = "findNS"
    /\ result = NoValue
    /\ result' = [fn |-> "findNS", ret |-> findNS(args.res, args.resolver)]
    /\ UNCHANGED <<args, unhelped>>

\* validateRRSIG called on its own, as main's workers call it: the keys, the
\* answer with the signature, and what validateChain returned before
MaxRepeat == 2      \* calls of validateRRSIG with the same arguments

VerifierWindows == SigWindows \cup {<<4, 5>>}      \* the third: not yet in force at 3

VerifierKeys == SeqsUpTo({DNSKEY(1), DNSKEY(3), OtherRR}, MaxAnswer)

VerifierRecords ==
    {RRSIG(s, w[1], w[2]) : s \in {1, 3}, w \in VerifierWindows} \cup {DNSKEY(1), OtherRR}

ValidateRRSIGArgs ==
    {[fn |-> "validateRRSIG", keys |-> k, rrset |-> r, chainValid |-> c] :
        k \in VerifierKeys, r \in SeqsUpTo(VerifierRecords, MaxAnswer), c \in BOOLEAN}

\* the DNSSEC, ValidFrom and ValidUntil columns main writes for validateRRSIG's result v
DNSSECColumns(v, chainValid, keys) ==
    IF v.valid /\ chainValid THEN [DNSSEC |-> "valid", Start |-> v.info.Start, End |-> v.info.End]
    ELSE IF v.err # NoErr THEN [DNSSEC |-> "error", Start |-> 0, End |-> 0]
    ELSE IF v.info.Start = 0 /\ Len(keys) = 0 THEN [DNSSEC |-> "disabled", Start |-> 0, End |-> 0]
    ELSE [DNSSEC |-> "invalid", Start |-> v.info.Start, End |-> v.info.End]

ValidateRRSIGInit ==
    /\ ChainAt({Root}, NowValues, "idle")
    /\ args \in ValidateRRSIGArgs
    /\ result = NoValue
    /\ report = NoReport

CallValidateRRSIG ==
    /\ args.fn = "validateRRSIG"
    /\ IF result = NoValue THEN TRUE ELSE result.n < MaxRepeat /\ ~result.ret.panic
    /\ LET v == validateRRSIG(args.keys, args.rrset)
       IN  result' = [fn |-> "validateRRSIG",
                      ret |-> v,
                      first |-> IF result = NoValue THEN v ELSE result.first,
                      n |-> IF result = NoValue THEN 1 ELSE result.n + 1,
                      row |-> DNSSECColumns(v, args.chainValid, args.keys)]
    /\ UNCHANGED <<args, unhelped>>

\* explicitValid called on its own: every inception, expiration and time
Serials == 0..(2 ^ SerialBits - 1)

ExplicitValidArgs == {[fn |-> "explicitValid", rr |-> RRSIG(1, i, e)] : i, e \in Serials}

ExplicitValidInit ==
    /\ ChainAt({Root}, Serials, "idle")
    /\ args \in ExplicitValidArgs
    /\ result = NoValue
    /\ report = NoReport

CallExplicitValid ==
    /\ args.fn = "explicitValid"
    /\ result = NoValue
    /\ LET w == explicitValid(args.rr)
       IN  result' = [fn |-> "explicitValid", ti |-> w[1], te |-> w[2]]
    /\ UNCHANGED <<args, unhelped>>

\* getParentDomain called again and again on what it returned, starting from
\* every fully qualified name of up to MaxLabels labels
AllLabels == {<<"a">>, <<"b">>, <<"a", "b">>}

RECURSIVE NamesOf(_)
NamesOf(n) ==
    IF n = 0 THEN {<<>>} ELSE {l \o <<".">> \o r : l \in AllLabels, r \in NamesOf(n - 1)}

FqdnSet == {Root} \cup UNION {NamesOf(n) : n \in 1..MaxLabels}

GetParentDomainArgs == {[fn |-> "getParentDomain", domain |-> d] : d \in FqdnSet}

GetParentDomainInit ==
    /\ ChainAt({Root}, NowValues, "idle")
    /\ args \in GetParentDomainArgs
    /\ result = NoValue
    /\ report = NoReport

CallGetParentDomain ==
    /\ args.fn = "getParentDomain"
    /\ IF result = NoValue THEN TRUE ELSE result.steps <= MaxLabels
    /\ LET d == IF result = NoValue THEN args.domain ELSE result.parent
       IN  result' = [fn |-> "getParentDomain",
                      domain |-> d,
                      parent |-> getParentDomain(d),
                      steps |-> IF result = NoValue THEN 1 ELSE result.steps + 1]
    /\ UNCHANGED <<args, unhelped>>

HelperInit == FindNSInit \/ ValidateRRSIGInit \/ ExplicitValidInit \/ GetParentDomainInit

HelperNext ==
    \/ CallFindNS
    \/ CallValidateRRSIG
    \/ CallExplicitValid
    \/ CallGetParentDomain

HelperSpec == HelperInit /\ [][HelperNext]_vars

\* C11: findNS reports the NoNameservers error whenever the list it returns
\* is empty (a transport error of the resolver, or a reply without NS
\* records), and returns a nil error only together with a non-empty list.
C11_EmptyListIsError ==
    result.fn = "findNS" =>
        /\ Len(result.ret.nsinfos) = 0 => result.ret.err = Err("NoNameservers", <<>>)
        /\ result.ret.err = NoErr => Len(result.ret.nsinfos) > 0

\* the rrset holds exactly one RRSIG; it is SigOf(rrset)
OneSig(rrset) == Cardinality({i \in 1..Len(rrset) : IsSig(rrset[i])}) = 1
SigOf(rrset) == rrset[CHOOSE i \in 1..Len(rrset) : IsSig(rrset[i])]

\* some DNSKEY of keys verifies the signature of rrset over the other
\* records, and now lies within [inception, expiration]
VerifiedInWindow(keys, rrset) ==
    /\ OneSig(rrset)
    /\ \E i \in 1..Len(keys) :
         IsKey(keys[i]) /\ Verify(SigOf(rrset), keys[i], SelectSeq(rrset, NotSig))
    /\ SigOf(rrset).Inception <= now /\ now <= SigOf(rrset).Expiration

KeyInfoOf(sig) == [Start |-> explicitValid(sig)[1], End |-> explicitValid(sig)[2]]

\* C12: for an rrset that is empty or holds exactly one RRSIG, validateRRSIG
\* returns (true, KeyInfo of the signature) if and only if some DNSKEY of
\* keys verifies the RRSIG over the non-RRSIG records and now lies within
\* [inception, expiration]; in every other case (false, empty KeyInfo); the
\* error is nil, and a second call with the same arguments returns the same.
\* The window test of the verifier agrees with inception <= now <= expiration
\* for every inception, expiration and time.
C12_VerifierContract ==
    /\ result.fn = "explicitValid" =>
         (ValidityPeriod(args.rr) <=> args.rr.Inception <= now /\ now <= args.rr.Expiration)
    /\ result.fn = "validateRRSIG" /\ (Len(args.rrset) = 0 \/ OneSig(args.rrset)) =>
        /\ ~result.ret.panic
        /\ result.ret.err = NoErr
        /\ result.ret.valid <=> VerifiedInWindow(args.keys, args.rrset)
        /\ result.ret.valid => result.ret.info = KeyInfoOf(SigOf(args.rrset))
        /\ ~result.ret.valid => result.ret.info = ZeroKeyInfo
        /\ result.ret = result.first

C12_Witness ==
    /\ result.fn = "validateRRSIG" /\ result.n = MaxRepeat
    /\ result.ret.valid
    /\ args.keys = <<DNSKEY(3), DNSKEY(1)>>
    /\ OneSig(args.rrset) /\ SigOf(args.rrset).signer = 1

Abs(x) == IF x < 0 THEN -x ELSE x

\* C13: for every inception, expiration and current time, the (start, end)
\* explicitValid computes lies within 2^31 of now (year68, at the width of
\* the model's serials).
C13_WindowNearNow ==
    result.fn = "explicitValid" =>
        /\ Abs(result.ti - now) < year68
        /\ Abs(result.te - now) < year68

\* some DNSKEY of keys verifies the one signature of rrset, which expired a
\* second ago
VerifiedButExpired(keys, rrset) ==
    /\ OneSig(rrset)
    /\ \E i \in 1..Len(keys) :
         IsKey(keys[i]) /\ Verify(SigOf(rrset), keys[i], SelectSeq(rrset, NotSig))
    /\ SigOf(rrset).Expiration = now - 1

\* C14: when a DNSKEY verifies the RRSIG and the signature expired at
\* now - 1, the verifier returns false and the KeyInfo it returns for the
\* report holds the canonicalised inception and expiration, not the zero
\* KeyInfo.
C14_ExpiredKeepsWindow ==
    result.fn = "validateRRSIG" /\ VerifiedButExpired(args.keys, args.rrset) =>
        /\ ~result.ret.valid
        /\ result.ret.info = KeyInfoOf(SigOf(args.rrset))
        /\ result.ret.info # ZeroKeyInfo

\* C14 as amended: when a DNSKEY verifies the RRSIG and the signature
\* expired at now - 1, the verifier returns false with the zero KeyInfo, and
\* the report row reads "invalid" with start and end 0.
C14_ExpiredReturnsZeroKeyInfo ==
    result.fn = "validateRRSIG" /\ VerifiedButExpired(args.keys, args.rrset) =>
        /\ ~result.ret.valid
        /\ result.ret.info = ZeroKeyInfo
        /\ result.row = [DNSSEC |-> "invalid", Start |-> 0, End |-> 0]

C14_Witness ==
    /\ result.fn = "validateRRSIG" /\ VerifiedButExpired(args.keys, args.rrset)
    /\ KeyInfoOf(SigOf(args.rrset)) = [Start |-> 1, End |-> 2]
    /\ args.chainValid

\* C15: getParentDomain removes exactly the leftmost label of a fully
\* qualified name, getParentDomain(".") = ".", and applied again and again
\* to a name it reaches "." in fewer steps than the name has labels (the
\* root label counted).
C15_ParentDerivation ==
    result.fn = "getParentDomain" =>
        /\ result.domain = Root => result.parent = Root
        /\ result.domain # Root =>
             /\ \E l \in AllLabels :
                  result.domain = (IF result.parent = Root THEN l \o Root
                                   ELSE l \o <<".">> \o result.parent)
             /\ LabelCount(result.parent) = LabelCount(result.domain) - 1
        /\ result.steps >= LabelCount(args.domain) - 1 => result.parent = Root

C15_Witness ==
    /\ result.fn = "getParentDomain"
    /\ LabelCount(args.domain) = MaxLabels + 1
    /\ result.steps = MaxLabels
    /\ result.domain # Root /\ result.parent = Root

\* C16: for every input domain, the root included, validateChain never runs
\* the DS phase (validateParentDS and its DS queries) with the root as the
\* zone being validated.
C16_NoDSPhaseForRoot == pc \in {"ds", "ret"} /\ dsCount > 0 => domain # Root

DNSKEYFailures == {"NoDNSKEY", "InconsistentKeys", "DNSKEYValidationFailed"}

\* a reply received in the DNSKEY phase of this call is one that fails
FailingReplySeen == keySeen \cap {"nokey", "unverified", "nosig"} # {} \/ Collision(rcvd)

\* C17: validateDomain queries the zone's (nameserver, address) pairs for
\* DNSKEY in list order, one at a time; at the first pair whose reply fails
\* (NoDNSKEY, InconsistentKeys, DNSKEYValidationFailed) it returns that
\* failure, with no DNSKEY query to a later pair and no DS query at all (the
\* call that panics on an unsigned answer, C9, queries no further either).
C17_FirstFailureStops ==
    /\ [](pc = "dnskey" =>
            /\ pos = Len(Pairs(nsdata)) - unprobed + 1
            /\ ~FailingReplySeen)
    /\ [](FailingReplySeen =>
            /\ pc \in {"ret", "done", "panic"}
            /\ dsCount = 0
            /\ pc # "panic" =>
                 ret.err.kind = (IF Collision(rcvd) THEN "InconsistentKeys"
                                 ELSE IF "nokey" \in keySeen THEN "NoDNSKEY"
                                 ELSE "DNSKEYValidationFailed"))
    /\ [](Returned /\ ret.err.kind \in DNSKEYFailures => dsCount = 0)
    /\ [][/\ pc = "dnskey" /\ pc' = "dnskey" => pos' = pos + 1 /\ unprobed' = unprobed - 1
          /\ pc = "dnskey" /\ pc' \in {"ret", "panic"} =>
               /\ unprobed' = Len(Pairs(nsdata)) - pos
               /\ dsCount' = 0
          /\ pc \notin {"dnskey", "chain"} => unprobed' = unprobed]_vars

C17_Witness ==
    /\ pc = "ret" /\ ret.err.kind = "DNSKEYValidationFailed"
    /\ keySeen = {"verified", "transport", "unverified"}
    /\ unprobed = 1 /\ dsCount = 0

\* C18: validateDomain succeeds only if in the DS phase at least one parent
\* DS was compared with the digest derived from the child DNSKEY of its key
\* tag and found equal, and no compared DS differed; a DS whose key tag
\* matches but whose child digest cannot be derived does not make the zone
\* succeed.
C18_SuccessNeedsDigestMatch ==
    Returned /\ ret.valid => "match" \in dsSeen /\ "mismatch" \notin dsSeen

\* C19: in the DS phase every (parent nameserver, address) pair is queried
\* for DS unless validateDomain has already returned a failure: a call that
\* succeeds has queried every pair, whatever the earlier addresses of a
\* nameserver replied and whether or not they timed out.
C19_EveryParentPairQueried ==
    Returned /\ ret.valid => dsUnprobed = 0

(***************************************************************************)
(* The report fan-out of main (main.go:190-250) and outputter              *)
(* (main.go:139-147): one worker goroutine per nameserver sends its row on *)
(* the unbuffered channel wc, outputter receives and prints, main waits    *)
(* for the workers, closes wc and receives on done.                        *)
(***************************************************************************)
MaxWorkers == 3     \* nameservers in nsinfos

Header == 0         \* the header line; a worker's row is the worker's number

\* the state after `go outputter()`
ReportStart(n) ==
    [n |-> n,
     main |-> "header",                    \* main is at `wc <- header`
     spawned |-> 0,                        \* iterations of main's loop over nsinfos
     wg |-> 0,                             \* the WaitGroup's counter
     worker |-> [w \in 1..n |-> "idle"],   \* idle, work, send, done, exit
     outputter |-> "range",                \* range, print, flush, done, exit
     closed |-> FALSE,                     \* wc is closed
     got |-> <<>>,                         \* what outputter received from wc, in order
     flushed |-> 0,                        \* messages written by w.Flush()
     panic |-> FALSE]                      \* a goroutine sent on the closed wc

ReportInit ==
    /\ ChainAt({Root}, NowValues, "idle")
    /\ args = NoArgs
    /\ result = NoValue
    /\ report \in {ReportStart(n) : n \in 1..MaxWorkers}

unreported == <<input, now, pc, domain, nsdata, pnsdata, pos, keyMap, foundKeyTag, ret, chainRes,
                calls, rcvd, unprobed, keySeen, dsCount, dsUnprobed, dsSeen, args, result>>

\* a worker that calls wg.Done() before it sends its row
WorkerAfter_DoneFirst(p) ==
    IF p = "work" THEN "done" ELSE IF p = "done" THEN "send" ELSE "exit"

\* the order of a worker's statements: build the row, wc <- output, wg.Done()
WorkerAfter(p) ==
    IF p = "work" THEN "send" ELSE IF p = "send" THEN "done" ELSE "exit"

\* wc <- header: main and outputter meet on the unbuffered channel
SendHeader ==
    /\ report.main = "header"
    /\ report.outputter = "range"
    /\ report' = [report EXCEPT !.main = "spawn", !.outputter = "print",
                                !.got = Append(@, Header)]
    /\ UNCHANGED unreported

\* one iteration of main's loop: wg.Add(1) and go func(nsinfo)
Spawn ==
    /\ report.main = "spawn"
    /\ report.spawned < report.n
    /\ report' = [report EXCEPT !.spawned = @ + 1, !.wg = @ + 1,
                                !.worker[report.spawned + 1] = "work"]
    /\ UNCHANGED unreported

\* the loop is over: main is at wg.Wait()
LoopEnd ==
    /\ report.main = "spawn"
    /\ report.spawned = report.n
    /\ report' = [report EXCEPT !.main = "wait"]
    /\ UNCHANGED unreported

\* the worker builds its row (its queries are not part of the fan-out)
WorkerRow(w) ==
    /\ report.worker[w] = "work"
    /\ report' = [report EXCEPT !.worker[w] = WorkerAfter("work")]
    /\ UNCHANGED unreported

\* wc <- output: the worker and outputter meet; a send on the closed channel panics
WorkerSend(w) ==
    /\ report.worker[w] = "send"
    /\ IF report.closed
       THEN report' = [report EXCEPT !.panic = TRUE, !.worker[w] = "exit"]
       ELSE /\ report.outputter = "range"
            /\ report' = [report EXCEPT !.worker[w] = WorkerAfter("send"),
                                        !.outputter = "print", !.got = Append(@, w)]
    /\ UNCHANGED unreported

\* wg.Done()
WorkerDone(w) ==
    /\ report.worker[w] = "done"
    /\ report' = [report EXCEPT !.worker[w] = WorkerAfter("done"), !.wg = @ - 1]
    /\ UNCHANGED unreported

\* wg.Wait() returns
Wait ==
    /\ report.main = "wait"
    /\ report.wg = 0
    /\ report' = [report EXCEPT !.main = "close"]
    /\ UNCHANGED unreported

\* close(wc); s.Stop(); main is at <-done
Close ==
    /\ report.main = "close"
    /\ report' = [report EXCEPT !.main = "done", !.closed = TRUE]
    /\ UNCHANGED unreported

\* fmt.Fprintf(w, input) in outputter's loop
OutputterPrint ==
    /\ report.outputter = "print"
    /\ report' = [report EXCEPT !.outputter = "range"]
    /\ UNCHANGED unreported

\* the range over wc ends when wc is closed
OutputterRangeEnd ==
    /\ report.outputter = "range"
    /\ report.closed
    /\ report' = [report EXCEPT !.outputter = "flush"]
    /\ UNCHANGED unreported

\* w.Flush()
OutputterFlush ==
    /\ report.outputter = "flush"
    /\ report' = [report EXCEPT !.outputter = "done", !.flushed = Len(report.got)]
    /\ UNCHANGED unreported

\* done <- struct{}{} meets main's <-done
Done ==
    /\ report.outputter = "done"
    /\ report.main = "done"
    /\ report' = [report EXCEPT !.outputter = "exit", !.main = "end"]
    /\ UNCHANGED unreported

ReportNext ==
    \/ SendHeader
    \/ Spawn
    \/ LoopEnd
    \/ \E w \in 1..report.n : WorkerRow(w)
    \/ \E w \in 1..report.n : WorkerSend(w)
    \/ \E w \in 1..report.n : WorkerDone(w)
    \/ Wait
    \/ Close
    \/ OutputterPrint
    \/ OutputterRangeEnd
    \/ OutputterFlush
    \/ Done

\* every goroutine that can take a step is scheduled
ReportSpec == ReportInit /\ [][ReportNext]_vars /\ WF_vars(ReportNext)

\* the rows outputter received from worker w
RowsOf(w) == Cardinality({i \in 1..Len(report.got) : report.got[i] = w})

\* C20: for every number n >= 1 of nameservers and every interleaving, the
\* header is received first, every worker's row is sent once and received
\* by outputter before wc is closed, nothing is sent on the closed channel,
\* and main receives on done, after outputter flushed all n + 1 messages.
C20_FanOut ==
    /\ [](Len(report.got) > 0 => report.got[1] = Header)
    /\ [](\A w \in 1..report.n : RowsOf(w) <= 1)
    /\ [](report.closed => \A w \in 1..report.n : RowsOf(w) = 1)
    /\ [](~report.panic)
    /\ [](report.main = "end" => report.flushed = report.n + 1)
    /\ <>(report.main = "end")

C20_Witness ==
    /\ report.n = MaxWorkers /\ report.main = "end" /\ report.outputter = "exit"
    /\ report.got = <<Header, 3, 1, 2>>

====
